---- MODULE Spec2Model ----
(***************************************************************************)
(* ZoomManager of oszoom (src/core/OSDetector.ts, second half of the file) *)
(* together with the CSSVariables collaborator it drives, the feature-     *)
(* based OSDetector (src/react.ts), ConfigManager.mergeConfig and the      *)
(* vanilla OSZoom adapter that ties them together.                         *)
(*                                                                         *)
(* Zoom levels are numbers in the source (0.5, 0.8, 1, 2.0 ...).  They are *)
(* modelled as integer percentages: 0.5 is 50, 1 is 100, 2.0 is 200.  The  *)
(* source only compares, copies and stores levels, so the scaling keeps    *)
(* every comparison.                                                       *)
(***************************************************************************)
EXTENDS Integers, Sequences, FiniteSets, TLC

\* ------------------------------------------------------------------ types

\* type OS: the closed set of OS tags
OSTags == {"windows", "macos", "linux", "android", "ios", "unknown"}

\* setZoom's range check: 0.5 and 2 as percentages
MinZoom == 50
MaxZoom == 200

\* the level of the lookup fallback and of reset(): 1, i.e. 100%
DefaultZoom == 100

\* Levels callers pass to setZoom: below the range (0.3, 0.49), the two
\* bounds, a level inside the range (0.8), above the range (2.01, 2.5).
Levels == {30, 49, 50, 80, 200, 201, 250}

\* enableCSS / enableJavaScript are optional booleans, modelled as one of
\* "undefined", "true", "false".

\* A key of the config object that holds no entry: config[os] is undefined.
Absent == [present |-> FALSE, enabled |-> FALSE, zoomLevel |-> 0]

Entry(enabled, zoomLevel) ==
  [present |-> TRUE, enabled |-> enabled, zoomLevel |-> zoomLevel]

\* No scale factor was ever set on the document root.
NoScale == 0

\* ZoomState objects live on a heap: reference 0 is the object the manager
\* holds in this.state, references 1..MaxSnaps are objects handed to callers.
MaxSnaps == 2
StateRef == 0
Refs == 0..MaxSnaps
Slots == 1..MaxSnaps
NullRef == -1

\* The content of a heap cell no object was allocated in.
NoObject == [currentZoom |-> 0, appliedOS |-> "unknown", isActive |-> FALSE]

\* The record of a call: its name and its arguments.
NoOS == "none"
NoLevel == 0
Call(name, os, level) == [name |-> name, os |-> os, level |-> level]

VARIABLES
  heap,              \* ZoomState objects by reference; heap[StateRef] is this.state
  config,            \* this.config, the per-OS entries
  enableCSS,         \* this.config.enableCSS
  enableJavaScript,  \* this.config.enableJavaScript
  scaleFactor,       \* --scale-factor on the document root, NoScale if never set
  calls,             \* arguments of the setScaleFactor calls of the latest operation
  ret,               \* number returned by the latest operation (NoLevel: none)
  snap,              \* the caller's variables holding getState() results
  op,                \* the latest call made on the manager
  env,               \* what window, navigator and CSS offer to OSDetector
  detected,          \* the outcome of the latest OSDetector.detect()
  DEFAULT_CONFIG,    \* the entry objects of ConfigManager.DEFAULT_CONFIG
  aliased,           \* the OS keys of this.config holding DEFAULT_CONFIG's object
  styles,            \* number of #oszoom-styles elements in the document
  adapter,           \* the adapter instance the caller holds, if any
  other,             \* a second manager, built from its own mergeConfig call
  mounted            \* the components of the page holding a mounted adapter

\* OSDetector has no state of its own: it reads env and returns.
detectorVars == <<env, detected>>

\* What ConfigManager and the OSZoom adapter add to the manager
adapterVars == <<DEFAULT_CONFIG, aliased, styles, adapter, other, mounted>>

vars == <<heap, config, enableCSS, enableJavaScript, scaleFactor, calls, ret,
          snap, op, env, detected, DEFAULT_CONFIG, aliased, styles, adapter,
          other, mounted>>

\* this.state
state == heap[StateRef]

\* ------------------------------------------------------------ CSSVariables

\* CSSVariables.setScaleFactor: last write wins on the root style.
\* doc is [scaleFactor, calls].
setScaleFactor(doc, factor) ==
  [scaleFactor |-> factor, calls |-> Append(doc.calls, factor)]

\* ------------------------------------------------------------- ZoomManager

\* defaultConfig with the package default (disabled) in place of enabled
defaultConfig_Disabled == Entry(FALSE, DefaultZoom)

\* getOSConfig's defaultConfig literal
defaultConfig == Entry(TRUE, DefaultZoom)

\* getOSConfig returns a reference: the entry object stored under config[os]
\* (named here by its key), or a fresh defaultConfig object nothing else
\* refers to (FreshRef).
FreshRef == "fresh"

getOSConfigRef(cfg, os) ==
  IF cfg[os].present THEN os ELSE FreshRef

\* The object behind a reference getOSConfig returned.
getOSConfig(cfg, os) ==
  IF getOSConfigRef(cfg, os) = FreshRef THEN defaultConfig ELSE cfg[os]

\* writeZoomLevel writing only to entries that are enabled
writeZoomLevel_EnabledOnly(cfg, ref, zoomLevel) ==
  IF ref = FreshRef \/ ~cfg[ref].enabled
    THEN cfg
    ELSE [cfg EXCEPT ![ref].zoomLevel = zoomLevel]

\* writeZoomLevel switching the entry on as it writes the level
writeZoomLevel_Enable(cfg, ref, zoomLevel) ==
  IF ref = FreshRef
    THEN cfg
    ELSE [cfg EXCEPT ![ref].zoomLevel = zoomLevel, ![ref].enabled = TRUE]

\* `config.zoomLevel = zoomLevel` through that reference: a write to the
\* fresh default object is lost with the object.
writeZoomLevel(cfg, ref, zoomLevel) ==
  IF ref = FreshRef THEN cfg ELSE [cfg EXCEPT ![ref].zoomLevel = zoomLevel]

\* applyZoom testing `if (this.config.enableCSS)`: an unset flag pushes nothing
applyZoom_Truthy(ecss, ejs, doc, zoomLevel) ==
  IF ecss = "true" THEN setScaleFactor(doc, zoomLevel) ELSE doc

\* applyZoom: pushes the factor unless enableCSS is explicitly false;
\* applyJavaScriptZoom has an empty body.
applyZoom(ecss, ejs, doc, zoomLevel) ==
  IF ecss # "false" THEN setScaleFactor(doc, zoomLevel) ELSE doc

\* apply recording 1 as the current zoom whatever the level it pushes
appliedState_Unscaled(osConfig, os) ==
  [currentZoom |-> DefaultZoom, appliedOS |-> os, isActive |-> TRUE]

\* The state apply writes when the OS is enabled.
appliedState(osConfig, os) ==
  [currentZoom |-> osConfig.zoomLevel, appliedOS |-> os, isActive |-> TRUE]

\* apply deactivating the zoom when the OS is disabled
disabledState_Deactivate(st) == [st EXCEPT !.isActive = FALSE]

\* The state apply leaves when the OS is disabled: the early return.
disabledState(st) == st

\* apply(os) as a function of what it reads; the result is the new
\* this.state and the new document.
apply(st, cfg, ecss, ejs, doc, os) ==
  LET osConfig == getOSConfig(cfg, os) IN
  IF ~osConfig.enabled
    THEN [state |-> disabledState(st), doc |-> doc]
    ELSE [state |-> appliedState(osConfig, os),
          doc   |-> applyZoom(ecss, ejs, doc, osConfig.zoomLevel)]

\* setZoom's guard without its upper bound
OutOfRange_NoUpper(zoomLevel) == zoomLevel < MinZoom

\* setZoom's guard rejecting the bounds themselves
OutOfRange_Strict(zoomLevel) == zoomLevel <= MinZoom \/ zoomLevel >= MaxZoom

\* setZoom's guard without its lower bound
OutOfRange_NoLower(zoomLevel) == zoomLevel > MaxZoom

\* setZoom's guard: zoomLevel < 0.5 || zoomLevel > 2
OutOfRange(zoomLevel) == zoomLevel < MinZoom \/ zoomLevel > MaxZoom

\* getZoom answering from the ZoomState for the OS last applied
getZoom_Current(st, cfg, os) ==
  IF st.appliedOS = os THEN st.currentZoom ELSE getOSConfig(cfg, os).zoomLevel

\* getZoom(os)
getZoom(st, cfg, os) == getOSConfig(cfg, os).zoomLevel

\* reset clearing the activity flag only
resetState_KeepZoom(st) == [st EXCEPT !.isActive = FALSE]

\* reset going back to the state of the constructor
resetState_ForgetOS(st) ==
  [currentZoom |-> DefaultZoom, appliedOS |-> "unknown", isActive |-> FALSE]

\* reset(): the state it writes and the factor it pushes
resetState(st) == [st EXCEPT !.currentZoom = DefaultZoom, !.isActive = FALSE]

\* reset pushing through applyZoom, so gated by enableCSS
resetDoc_Gated(ecss, ejs, doc) == applyZoom(ecss, ejs, doc, DefaultZoom)

resetDoc(ecss, ejs, doc) == setScaleFactor(doc, DefaultZoom)

\* getState returning this.state itself
getState_Alias(h, fresh) == [ref |-> StateRef, heap |-> h]

\* getState(): `{ ...this.state }` allocates a new object (in the cell
\* `fresh`), copies the fields of this.state into it and returns its
\* reference.
getState(h, fresh) ==
  [ref |-> fresh, heap |-> [h EXCEPT ![fresh] = h[StateRef]]]

\* The document as an operation finds it: no call made yet.
DocNow == [scaleFactor |-> scaleFactor, calls |-> <<>>]

\* A constructor that leaves the manager active
initialState_Active ==
  [currentZoom |-> DefaultZoom, appliedOS |-> "unknown", isActive |-> TRUE]

\* The ZoomState literal of the constructor
initialState ==
  [currentZoom |-> DefaultZoom, appliedOS |-> "unknown", isActive |-> FALSE]

\* -------------------------------------------------------------- OSDetector
\* The feature-based OSDetector.  It reads window, navigator and CSS; env
\* holds what they offer.  Numbers with a fraction (devicePixelRatio) are
\* scaled by 100 like the zoom levels.  A method that raises an error has
\* no value: for each method M that can raise, MThrows(e) tells whether it
\* does, and M(e) is its value when it does not.

\* navigator.platform values as character sequences
PlatformText(p) ==
  CASE p = "iPhone"       -> <<"i", "P", "h", "o", "n", "e">>
    [] p = "iPad"         -> <<"i", "P", "a", "d">>
    [] p = "iPod"         -> <<"i", "P", "o", "d">>
    [] p = "Win32"        -> <<"W", "i", "n", "3", "2">>
    [] p = "MacIntel"     -> <<"M", "a", "c", "I", "n", "t", "e", "l">>
    [] p = "Darwin"       -> <<"D", "a", "r", "w", "i", "n">>
    [] p = "Linux x86_64" -> <<"L", "i", "n", "u", "x", " ", "x", "8", "6",
                               "_", "6", "4">>
    [] p = "Android"      -> <<"A", "n", "d", "r", "o", "i", "d">>
    [] p = "FreeBSD"      -> <<"F", "r", "e", "e", "B", "S", "D">>
    [] OTHER              -> <<>>

\* String.prototype.toLowerCase on the letters the platform values use
UpperCase == <<"A", "B", "D", "F", "I", "L", "M", "P", "S", "W">>
LowerCase == <<"a", "b", "d", "f", "i", "l", "m", "p", "s", "w">>

toLowerCase(str) ==
  [i \in 1..Len(str) |->
     IF \E k \in 1..Len(UpperCase) : UpperCase[k] = str[i]
       THEN LowerCase[CHOOSE k \in 1..Len(UpperCase) : UpperCase[k] = str[i]]
       ELSE str[i]]

\* String.prototype.includes
includes(str, sub) ==
  \E i \in 0..(Len(str) - Len(sub)) : SubSeq(str, i + 1, i + Len(sub)) = sub

\* The navigator.platform values of the model; "undefined" is the property
\* left unset.
Platforms ==
  {"undefined", "iPhone", "iPad", "iPod", "Win32", "MacIntel", "Darwin",
   "Linux x86_64", "Android", "FreeBSD"}

\* toLowerCase() of each platform value, computed once
LowerCasePlatforms == [p \in Platforms |-> toLowerCase(PlatformText(p))]

\* `navigator.platform?.toLowerCase() || ''`
platformOf(e) ==
  IF e.platform = "undefined" THEN <<>> ELSE LowerCasePlatforms[e.platform]

\* The substrings the detector looks for
s_iphone  == <<"i", "p", "h", "o", "n", "e">>
s_ipad    == <<"i", "p", "a", "d">>
s_ipod    == <<"i", "p", "o", "d">>
s_android == <<"a", "n", "d", "r", "o", "i", "d">>
s_linux   == <<"l", "i", "n", "u", "x">>
s_win     == <<"w", "i", "n">>
s_wow64   == <<"w", "o", "w", "6", "4">>
s_win64   == <<"w", "i", "n", "6", "4">>
s_win32   == <<"w", "i", "n", "3", "2">>
s_mac     == <<"m", "a", "c">>
s_darwin  == <<"d", "a", "r", "w", "i", "n">>
s_x11     == <<"x", "1", "1">>

\* What detect returns, or that it raised an error, or that it was not
\* called yet.  A property that is not set is "undefined".
Result(os, version, isMobile, browser) ==
  [status |-> "returned", os |-> os, version |-> version,
   isMobile |-> isMobile, browser |-> browser]

Threw ==
  [status |-> "threw", os |-> "none", version |-> "undefined",
   isMobile |-> FALSE, browser |-> "undefined"]

NotDetected ==
  [status |-> "none", os |-> "none", version |-> "undefined",
   isMobile |-> FALSE, browser |-> "undefined"]

\* The SSR check testing window only
noBrowser_WindowOnly(e) == ~e.hasWindow

\* `typeof window === 'undefined' || typeof navigator === 'undefined'`
noBrowser(e) == ~e.hasWindow \/ ~e.hasNavigator

\* `'ontouchstart' in window || navigator.maxTouchPoints > 0`
hasTouch(e) == e.ontouchstart \/ e.maxTouchPoints > 0

\* Reading `window` or `navigator.maxTouchPoints` where the global does not
\* exist raises a ReferenceError.
isMobileDeviceThrows(e) == ~e.hasWindow \/ ~e.hasNavigator

isMobileDevice(e) ==
  LET hasTouchScreen    == hasTouch(e)
      isSmallScreen     == e.screenWidth < 1024 \/ e.screenHeight < 768
      hasMobileAPIs     == e.standalone
      hasHighDPI        == e.devicePixelRatio > 150
      hasMobileViewport == e.innerWidth < 768 \/ e.innerHeight < 768
  IN hasTouchScreen
       /\ (isSmallScreen \/ hasMobileAPIs \/ (hasHighDPI /\ hasMobileViewport))

\* CSS.supports(...) is evaluated first thing; without a CSS object it
\* raises a ReferenceError.
isIOSDeviceThrows(e) == e.css = "missing"

isIOSDevice(e) ==
  LET hasIOSStandalone    == e.standalone
      hasTouchSupport     == hasTouch(e)
      hasIOSCSS           == e.css \in {"touchCallout", "both"}
      hasWebkitVendor     == e.css \in {"appearance", "both"}
      hasIOSTouchBehavior == e.TouchEvent
      platform            == platformOf(e)
      isIOSPlatform       == \/ includes(platform, s_iphone)
                             \/ includes(platform, s_ipad)
                             \/ includes(platform, s_ipod)
  IN \/ isIOSPlatform
     \/ (hasIOSStandalone /\ hasTouchSupport /\ (hasIOSCSS \/ hasWebkitVendor))
     \/ (hasTouchSupport /\ hasIOSCSS /\ hasIOSTouchBehavior
           /\ isMobileDevice(e))

\* `typeof chrome !== 'undefined' && chrome.runtime`: reading .runtime of
\* null raises a TypeError.
chromeRuntimeThrows(e) == e.chrome = "null"

chromeRuntime(e) == e.chrome = "runtime"

isAndroidDeviceThrows(e) ==
  IF ~isMobileDevice(e) THEN FALSE
  ELSE IF isIOSDeviceThrows(e) THEN TRUE
  ELSE IF isIOSDevice(e) THEN FALSE
  ELSE chromeRuntimeThrows(e)

isAndroidDevice(e) ==
  IF ~isMobileDevice(e) \/ isIOSDevice(e) THEN FALSE
  ELSE
    LET hasTouchSupport   == hasTouch(e)
        platform          == platformOf(e)
        isAndroidPlatform == \/ includes(platform, s_android)
                             \/ (includes(platform, s_linux) /\ isMobileDevice(e))
        hasChromeFeatures == chromeRuntime(e) /\ isMobileDevice(e)
    IN isAndroidPlatform
         \/ (hasTouchSupport /\ hasChromeFeatures /\ ~isIOSDevice(e))

isWindowsDevice(e) ==
  IF isMobileDevice(e) THEN FALSE
  ELSE
    LET platform          == platformOf(e)
        isWindowsPlatform == \/ includes(platform, s_win)
                             \/ includes(platform, s_wow64)
                             \/ includes(platform, s_win64)
        hasActiveX        == e.ActiveXObject
        isDesktopScreen   == e.screenWidth >= 1024 /\ e.screenHeight >= 768
    IN isWindowsPlatform \/ (hasActiveX /\ isDesktopScreen)

getWindowsVersion(e) ==
  LET platform == platformOf(e) IN
  IF includes(platform, s_win64) \/ includes(platform, s_wow64)
    THEN "Windows 10/11"
  ELSE IF includes(platform, s_win32) THEN "Windows"
  ELSE "undefined"

isMacOSDevice(e) ==
  IF isMobileDevice(e) THEN FALSE
  ELSE
    LET platform          == platformOf(e)
        isMacPlatform     == includes(platform, s_mac) \/ includes(platform, s_darwin)
        hasWebkit         == e.webkit
        hasSafariFeatures == e.safari
        hasRetinaDisplay  == e.devicePixelRatio >= 200
    IN \/ isMacPlatform
       \/ (hasSafariFeatures /\ hasWebkit /\ ~isMobileDevice(e))
       \/ (hasWebkit /\ hasRetinaDisplay /\ ~isWindowsDevice(e)
             /\ ~isMobileDevice(e))

isLinuxDeviceThrows(e) ==
  IF isMobileDevice(e) \/ isWindowsDevice(e) \/ isMacOSDevice(e) THEN FALSE
  ELSE chromeRuntimeThrows(e)

isLinuxDevice(e) ==
  IF isMobileDevice(e) \/ isWindowsDevice(e) \/ isMacOSDevice(e) THEN FALSE
  ELSE
    LET platform            == platformOf(e)
        isLinuxPlatform     == \/ (includes(platform, s_linux)
                                     /\ ~includes(platform, s_android))
                               \/ includes(platform, s_x11)
        hasFirefoxFeatures  == e.InstallTrigger
        hasChromiumFeatures == chromeRuntime(e)
    IN isLinuxPlatform
         \/ ((hasFirefoxFeatures \/ hasChromiumFeatures)
               /\ ~isWindowsDevice(e) /\ ~isMacOSDevice(e) /\ ~isMobileDevice(e))

\* detectFromFeatures: the mobile branch, then the desktop branch with
\* its platform fallback and the final default.
detectFromFeaturesThrows(e) ==
  IF isMobileDeviceThrows(e) THEN TRUE
  ELSE IF isMobileDevice(e)
    THEN isIOSDeviceThrows(e) \/ (~isIOSDevice(e) /\ isAndroidDeviceThrows(e))
    ELSE ~isWindowsDevice(e) /\ ~isMacOSDevice(e) /\ isLinuxDeviceThrows(e)

detectFromFeatures(e) ==
  IF isMobileDevice(e)
    THEN IF isIOSDevice(e) THEN Result("ios", "undefined", TRUE, "undefined")
         ELSE IF isAndroidDevice(e)
           THEN Result("android", "undefined", TRUE, "undefined")
         ELSE Result("android", "undefined", TRUE, "undefined")
    ELSE IF isWindowsDevice(e)
           THEN Result("windows", getWindowsVersion(e), FALSE, "undefined")
         ELSE IF isMacOSDevice(e)
           THEN Result("macos", "undefined", FALSE, "undefined")
         ELSE IF isLinuxDevice(e)
           THEN Result("linux", "undefined", FALSE, "undefined")
         ELSE
           LET platform == platformOf(e)
               os == IF includes(platform, s_win) THEN "windows"
                     ELSE IF includes(platform, s_mac)
                             \/ includes(platform, s_darwin) THEN "macos"
                     ELSE IF includes(platform, s_linux) THEN "linux"
                     ELSE "unknown"
           IN Result(IF os = "unknown" THEN "windows" ELSE os,
                     "undefined", FALSE, "undefined")

detectBrowserFromFeaturesThrows(e) == chromeRuntimeThrows(e)

detectBrowserFromFeatures(e) ==
  IF chromeRuntime(e) THEN "Chrome"
  ELSE IF e.InstallTrigger THEN "Firefox"
  ELSE IF e.safari THEN "Safari"
  ELSE IF e.StyleMedia THEN "Edge"
  ELSE "undefined"

\* detect(): the SSR check, detectFromFeatures, then the browser spread
\* into the result.
detect(e) ==
  IF noBrowser(e) THEN Result("unknown", "undefined", FALSE, "undefined")
  ELSE IF detectFromFeaturesThrows(e) THEN Threw
  ELSE IF detectBrowserFromFeaturesThrows(e) THEN Threw
  ELSE [detectFromFeatures(e) EXCEPT !.browser = detectBrowserFromFeatures(e)]

\* The environments detect is run in.  Env builds one from its parts:
\* t = <<ontouchstart, maxTouchPoints>>, sc = <<screen.width, screen.height>>,
\* vp = <<innerWidth, innerHeight>>, m = the globals the browser defines.
Env(win, nav, t, sc, sa, dpr, vp, css, te, pf, m) ==
  [hasWindow |-> win, hasNavigator |-> nav,
   ontouchstart |-> t[1], maxTouchPoints |-> t[2],
   screenWidth |-> sc[1], screenHeight |-> sc[2],
   standalone |-> sa, devicePixelRatio |-> dpr,
   innerWidth |-> vp[1], innerHeight |-> vp[2],
   css |-> css, TouchEvent |-> te, platform |-> pf,
   chrome |-> m.chrome, InstallTrigger |-> m.InstallTrigger,
   safari |-> m.safari, StyleMedia |-> m.StyleMedia,
   ActiveXObject |-> m.ActiveXObject, webkit |-> m.webkit]

Markers(chrome, it, safari, sm, ax, webkit) ==
  [chrome |-> chrome, InstallTrigger |-> it, safari |-> safari,
   StyleMedia |-> sm, ActiveXObject |-> ax, webkit |-> webkit]

NoMarkers == Markers("undefined", FALSE, FALSE, FALSE, FALSE, FALSE)

TouchProfiles == {<<FALSE, 0>>, <<TRUE, 0>>, <<FALSE, 5>>}
ScreenProfiles == {<<1023, 768>>, <<1024, 767>>, <<1024, 768>>}
PixelRatios == {150, 175, 200}
ViewportProfiles == {<<767, 768>>, <<768, 767>>, <<768, 768>>}
CSSProfiles == {"missing", "none", "touchCallout", "appearance"}
ChromeValues == {"undefined", "null", "object", "runtime"}
\* Browsers as sets of globals: none, Chrome, a null chrome global, a chrome
\* object without runtime, Firefox, Safari, Internet Explorer
MarkerProfiles ==
  {NoMarkers,
   Markers("runtime", FALSE, FALSE, FALSE, FALSE, TRUE),
   Markers("null", FALSE, FALSE, FALSE, FALSE, FALSE),
   Markers("object", FALSE, FALSE, FALSE, FALSE, FALSE),
   Markers("undefined", TRUE, FALSE, FALSE, FALSE, FALSE),
   Markers("undefined", FALSE, TRUE, FALSE, FALSE, TRUE),
   Markers("undefined", FALSE, FALSE, TRUE, TRUE, FALSE)}

AllMarkers ==
  {Markers(c, it, sf, sm, ax, wk) :
     c \in ChromeValues, it \in BOOLEAN, sf \in BOOLEAN, sm \in BOOLEAN,
     ax \in BOOLEAN, wk \in BOOLEAN}

\* Every combination of the signals isMobileDevice and isIOSDevice read,
\* with each platform, in each browser of MarkerProfiles
SignalEnvs ==
  {Env(TRUE, TRUE, t, sc, sa, dpr, vp, css, te, pf, m) :
     t \in TouchProfiles, sc \in ScreenProfiles, sa \in BOOLEAN,
     dpr \in PixelRatios, vp \in ViewportProfiles, css \in CSSProfiles,
     te \in BOOLEAN, pf \in Platforms, m \in MarkerProfiles}

\* A desktop, a retina desktop, a touch desktop, an iOS phone, an Android
\* phone and a phone whose browser has no CSS object
Desktop(pf, m) ==
  Env(TRUE, TRUE, <<FALSE, 0>>, <<1024, 768>>, FALSE, 150, <<768, 768>>,
      "appearance", FALSE, pf, m)

RetinaDesktop(pf, m) ==
  Env(TRUE, TRUE, <<FALSE, 0>>, <<1024, 768>>, FALSE, 200, <<768, 768>>,
      "appearance", FALSE, pf, m)

TouchDesktop(pf, m) ==
  Env(TRUE, TRUE, <<TRUE, 5>>, <<1024, 768>>, FALSE, 150, <<768, 768>>,
      "none", TRUE, pf, m)

IOSPhone(pf, m) ==
  Env(TRUE, TRUE, <<TRUE, 5>>, <<1023, 767>>, TRUE, 200, <<767, 767>>,
      "both", TRUE, pf, m)

AndroidPhone(pf, m) ==
  Env(TRUE, TRUE, <<TRUE, 5>>, <<1023, 767>>, FALSE, 200, <<767, 767>>,
      "appearance", TRUE, pf, m)

PlainPhone(pf, m) ==
  Env(TRUE, TRUE, <<TRUE, 1>>, <<1023, 767>>, FALSE, 150, <<767, 767>>,
      "missing", FALSE, pf, m)

\* Every combination of browser globals, with each platform, on each of
\* the six devices
MarkerEnvs ==
  UNION {{Desktop(pf, m), RetinaDesktop(pf, m), TouchDesktop(pf, m),
          IOSPhone(pf, m), AndroidPhone(pf, m), PlainPhone(pf, m)} :
           pf \in Platforms, m \in AllMarkers}

\* Server-side rendering: no window, no navigator, or neither
NoEnv ==
  [Desktop("undefined", NoMarkers) EXCEPT !.hasWindow = FALSE,
                                          !.hasNavigator = FALSE]

ServerEnvs ==
  {NoEnv,
   [Desktop("undefined", NoMarkers) EXCEPT !.hasWindow = FALSE],
   [Desktop("undefined", NoMarkers) EXCEPT !.hasNavigator = FALSE]}

DetectEnvs == SignalEnvs \cup MarkerEnvs \cup ServerEnvs

\* ----------------------------------------------------------- ConfigManager

\* The DEFAULT_CONFIG literal: its five entries and its three flags
DefaultEntries ==
  [os \in OSTags |-> IF os = "unknown" THEN Absent ELSE Entry(FALSE, DefaultZoom)]

DefaultDebug == "false"

DefaultEnableCSS == "true"

DefaultEnableJavaScript == "true"

\* A ZoomControllerConfig argument: entries maps each OS key to its entry
\* or to Absent, a flag that is left out is "undefined".
UserConfig(entries, debug, ecss, ejs) ==
  [entries |-> entries, debug |-> debug, enableCSS |-> ecss,
   enableJavaScript |-> ejs]

\* `{}`, and what spreading an undefined argument contributes
EmptyConfig ==
  UserConfig([os \in OSTags |-> Absent], "undefined", "undefined", "undefined")

\* mergeConfig: `{ ...this.DEFAULT_CONFIG, ...userConfig }`.  The spread
\* copies property values, so an entry that comes from the defaults is
\* DEFAULT_CONFIG's own object: shared lists those keys.
mergeConfig(dc, userConfig) ==
  [entries |-> [os \in OSTags |->
                  IF userConfig.entries[os].present THEN userConfig.entries[os]
                  ELSE dc[os]],
   shared |-> {os \in OSTags : ~userConfig.entries[os].present /\ dc[os].present},
   debug |-> IF userConfig.debug # "undefined" THEN userConfig.debug
             ELSE DefaultDebug,
   enableCSS |-> IF userConfig.enableCSS # "undefined" THEN userConfig.enableCSS
                 ELSE DefaultEnableCSS,
   enableJavaScript |->
     IF userConfig.enableJavaScript # "undefined" THEN userConfig.enableJavaScript
     ELSE DefaultEnableJavaScript]

\* ConfigManager.presets: each call evaluates an object literal, so every
\* result is a new value nothing else refers to.
PresetNames ==
  {"windowsOnly", "macosOnly", "desktopOnly", "allPlatforms", "mobileOnly"}

\* The OS keys a preset enables at 0.8; the others are disabled at 1
presetEnabled(name) ==
  CASE name = "windowsOnly"  -> {"windows"}
    [] name = "macosOnly"    -> {"macos"}
    [] name = "desktopOnly"  -> {"windows", "macos", "linux"}
    [] name = "allPlatforms" -> {"windows", "macos", "linux", "android", "ios"}
    [] name = "mobileOnly"   -> {"android", "ios"}

\* presets with a mobileOnly that leaves ios disabled
presets_AndroidOnly(name) ==
  UserConfig([os \in OSTags |->
                IF os = "unknown" THEN Absent
                ELSE IF os \in presetEnabled(name) \ (IF name = "mobileOnly" THEN {"ios"} ELSE {})
                  THEN Entry(TRUE, 80)
                ELSE Entry(FALSE, DefaultZoom)],
             "undefined", "undefined", "undefined")

presets(name) ==
  UserConfig([os \in OSTags |->
                IF os = "unknown" THEN Absent
                ELSE IF os \in presetEnabled(name) THEN Entry(TRUE, 80)
                ELSE Entry(FALSE, DefaultZoom)],
             "undefined", "undefined", "undefined")

\* What setZoom's `config.zoomLevel = zoomLevel` does to DEFAULT_CONFIG:
\* the entry written is DEFAULT_CONFIG's when this.config shares it.
writeShared(dc, shared, ref, zoomLevel) ==
  IF ref # FreshRef /\ ref \in shared
    THEN [dc EXCEPT ![ref].zoomLevel = zoomLevel]
    ELSE dc

\* injectCSS appending a style element without looking for the marker
injectCSS_Always(n) == n + 1

\* CSSVariables.injectCSS and removeCSS on the number of style elements
injectCSS(n) == IF n > 0 THEN n ELSE n + 1

removeCSS(n) == IF n > 0 THEN n - 1 ELSE n

\* The caller's adapter instance: none yet, or one of kind vanilla (OSZoom),
\* react, vue or angular built from userConfig; os is the osInfo.os its
\* initialization detected.
\* zoomManager tells whether the instance holds a manager (the hook and
\* the composable hold null until they are mounted); state is the ZoomState
\* a hook, composable or service hands to its consumer, which starts as
\* the literal {1, 'unknown', false} (OSZoom has no such field).
Adapter(kind, userConfig, os) ==
  [exists |-> TRUE, userConfig |-> userConfig, kind |-> kind, os |-> os,
   zoomManager |-> TRUE, state |-> initialState]

NoAdapter ==
  [exists |-> FALSE, userConfig |-> EmptyConfig, kind |-> "none",
   os |-> "unknown", zoomManager |-> FALSE, state |-> initialState]

\* The kinds of adapter a UI framework mounts and tears down
ComponentKinds == {"react", "vue", "angular"}

\* An adapter that never hands a new state to its consumer
publish_Never(a, st) == a

\* setState(zoomManager.getState()), state.value = zoomManager.getState(),
\* stateSubject.next(zoomManager.getState()): the adapter hands out the
\* copy getState() returned.
publish(a, st) == [a EXCEPT !.state = st]

\* A second manager: its own entry objects and the keys under which it
\* holds DEFAULT_CONFIG's objects
NoOther ==
  [exists |-> FALSE, entries |-> [os \in OSTags |-> Absent], shared |-> {}]

\* The config object of the second manager as it reads it
otherConfig(dc, o) ==
  [os \in OSTags |-> IF os \in o.shared THEN dc[os] ELSE o.entries[os]]

\* Components of one page that each mount an adapter of their own: a
\* component holds none, or one of some kind whose private manager is in
\* the state its latest call left.
MaxComponents == 2
Components == 1..MaxComponents

NoComponent == [kind |-> "none", state |-> initialState]

Component(kind, st) == [kind |-> kind, state |-> st]

NoComponents == [i \in Components |-> NoComponent]

\* ------------------------------------------------------------------ actions

Apply(os) ==
  LET r == apply(state, config, enableCSS, enableJavaScript, DocNow, os) IN
  /\ heap' = [heap EXCEPT ![StateRef] = r.state]
  /\ scaleFactor' = r.doc.scaleFactor
  /\ calls' = r.doc.calls
  /\ ret' = NoLevel
  /\ op' = Call("apply", os, NoLevel)
  /\ UNCHANGED <<config, enableCSS, enableJavaScript, snap>>
  /\ UNCHANGED detectorVars
  /\ UNCHANGED adapterVars

\* zoomManager.setZoom(os, zoomLevel) on the manager at hand, whoever holds
\* it: what the call does to everything but its holder
zoomManagerSetZoom(os, zoomLevel) ==
  /\ op' = Call("setZoom", os, zoomLevel)
  /\ ret' = NoLevel
  /\ IF OutOfRange(zoomLevel)
       THEN /\ calls' = <<>>
            /\ UNCHANGED <<heap, config, scaleFactor, DEFAULT_CONFIG>>
       ELSE LET ref  == getOSConfigRef(config, os)
                cfg2 == writeZoomLevel(config, ref, zoomLevel)
                r    == apply(state, cfg2, enableCSS, enableJavaScript, DocNow, os)
            IN /\ config' = cfg2
               /\ DEFAULT_CONFIG' = writeShared(DEFAULT_CONFIG, aliased, ref, zoomLevel)
               /\ heap' = [heap EXCEPT ![StateRef] = r.state]
               /\ scaleFactor' = r.doc.scaleFactor
               /\ calls' = r.doc.calls
  /\ UNCHANGED <<enableCSS, enableJavaScript, snap>>
  /\ UNCHANGED detectorVars
  /\ UNCHANGED <<aliased, styles, other, mounted>>

SetZoom(os, zoomLevel) ==
  /\ zoomManagerSetZoom(os, zoomLevel)
  /\ UNCHANGED adapter

GetZoom(os) ==
  /\ ret' = getZoom(state, config, os)
  /\ calls' = <<>>
  /\ op' = Call("getZoom", os, NoLevel)
  /\ UNCHANGED <<heap, config, enableCSS, enableJavaScript, scaleFactor, snap>>
  /\ UNCHANGED detectorVars
  /\ UNCHANGED adapterVars

\* zoomManager.reset() on the manager at hand, whoever holds it
zoomManagerReset ==
  LET d == resetDoc(enableCSS, enableJavaScript, DocNow) IN
  /\ heap' = [heap EXCEPT ![StateRef] = resetState(state)]
  /\ scaleFactor' = d.scaleFactor
  /\ calls' = d.calls
  /\ ret' = NoLevel
  /\ op' = Call("reset", NoOS, NoLevel)
  /\ UNCHANGED <<config, enableCSS, enableJavaScript, snap>>
  /\ UNCHANGED detectorVars
  /\ UNCHANGED <<DEFAULT_CONFIG, aliased, styles, other, mounted>>

Reset ==
  /\ zoomManagerReset
  /\ UNCHANGED adapter

GetState(i) ==
  LET r == getState(heap, i) IN
  /\ heap' = r.heap
  /\ snap' = [snap EXCEPT ![i] = r.ref]
  /\ calls' = <<>>
  /\ ret' = NoLevel
  /\ op' = Call("getState", NoOS, NoLevel)
  /\ UNCHANGED <<config, enableCSS, enableJavaScript, scaleFactor>>
  /\ UNCHANGED detectorVars
  /\ UNCHANGED adapterVars

\* The caller assigns to a field of a ZoomState object it was handed
\* (ZoomState has no readonly fields): a zoom of 0.3, which the manager
\* never writes, the OS tag ios, either activity flag.
ScribbleZooms == {30}

ScribbleOS == {"ios"}

MutateSnapshot(i) ==
  /\ snap[i] # NullRef
  /\ \/ \E z \in ScribbleZooms :
          heap' = [heap EXCEPT ![snap[i]].currentZoom = z]
     \/ \E o \in ScribbleOS :
          heap' = [heap EXCEPT ![snap[i]].appliedOS = o]
     \/ \E b \in BOOLEAN :
          heap' = [heap EXCEPT ![snap[i]].isActive = b]
  /\ calls' = <<>>
  /\ ret' = NoLevel
  /\ op' = Call("mutate", NoOS, NoLevel)
  /\ UNCHANGED <<config, enableCSS, enableJavaScript, scaleFactor, snap>>
  /\ UNCHANGED detectorVars
  /\ UNCHANGED adapterVars

\* OSDetector.detect() in the environment at hand
Detect ==
  /\ detected' = detect(env)
  /\ calls' = <<>>
  /\ ret' = NoLevel
  /\ op' = Call("detect", NoOS, NoLevel)
  /\ UNCHANGED <<heap, config, enableCSS, enableJavaScript, scaleFactor, snap,
                 env>>
  /\ UNCHANGED adapterVars

\* new OSZoom(userConfig): mergeConfig, new ZoomManager(mergedConfig), then
\* initialize: injectCSS, detect, apply(osInfo.os).  Without a document
\* injectCSS raises; when detect raises the constructor raises after the
\* stylesheet went in.  A constructor that raises hands no instance to the
\* caller, who keeps the one held before.
NewOSZoom(userConfig) ==
  LET mergedConfig == mergeConfig(DEFAULT_CONFIG, userConfig)
      osInfo == detect(env)
      r == apply(initialState, mergedConfig.entries, mergedConfig.enableCSS,
                 mergedConfig.enableJavaScript, DocNow, osInfo.os)
  IN
  /\ op' = Call("OSZoom", NoOS, NoLevel)
  /\ ret' = NoLevel
  /\ IF ~env.hasWindow
       THEN /\ calls' = <<>>
            /\ UNCHANGED <<heap, config, enableCSS, enableJavaScript,
                           scaleFactor, detected, aliased, styles, adapter>>
       ELSE /\ styles' = injectCSS(styles)
            /\ detected' = osInfo
            /\ IF osInfo.status = "threw"
                 THEN /\ calls' = <<>>
                      /\ UNCHANGED <<heap, config, enableCSS, enableJavaScript,
                                     scaleFactor, aliased, adapter>>
                 ELSE /\ config' = mergedConfig.entries
                      /\ aliased' = mergedConfig.shared
                      /\ enableCSS' = mergedConfig.enableCSS
                      /\ enableJavaScript' = mergedConfig.enableJavaScript
                      /\ heap' = [heap EXCEPT ![StateRef] = r.state]
                      /\ scaleFactor' = r.doc.scaleFactor
                      /\ calls' = r.doc.calls
                      /\ adapter' = Adapter("vanilla", userConfig, osInfo.os)
  /\ UNCHANGED <<snap, env, DEFAULT_CONFIG, other, mounted>>

\* OSZoom.setZoom and OSZoom.reset hand over to the manager
OSZoomSetZoom(os, zoomLevel) ==
  /\ adapter.exists
  /\ adapter.kind = "vanilla"
  /\ SetZoom(os, zoomLevel)

OSZoomReset ==
  /\ adapter.exists
  /\ adapter.kind = "vanilla"
  /\ Reset

\* OSZoom.destroy: reset(), then removeCSS()
Destroy ==
  LET d == resetDoc(enableCSS, enableJavaScript, DocNow) IN
  /\ adapter.exists
  /\ adapter.kind = "vanilla"
  /\ heap' = [heap EXCEPT ![StateRef] = resetState(state)]
  /\ scaleFactor' = d.scaleFactor
  /\ calls' = d.calls
  /\ styles' = removeCSS(styles)
  /\ ret' = NoLevel
  /\ op' = Call("destroy", NoOS, NoLevel)
  /\ UNCHANGED <<config, enableCSS, enableJavaScript, snap>>
  /\ UNCHANGED detectorVars
  /\ UNCHANGED <<DEFAULT_CONFIG, aliased, adapter, other, mounted>>

\* The React hook's effect, the Vue composable's setup and onMounted, the
\* Angular service's field initializer and constructor: detect, then
\* new ZoomManager(mergeConfig(config)), injectCSS, apply(osInfo.os), and
\* the state handed out is getState().  The React effect returns at once
\* where window does not exist.  When detect raises nothing is built.
Mount(kind, userConfig) ==
  LET mergedConfig == mergeConfig(DEFAULT_CONFIG, userConfig)
      osInfo == detect(env)
      r == apply(initialState, mergedConfig.entries, mergedConfig.enableCSS,
                 mergedConfig.enableJavaScript, DocNow, osInfo.os)
  IN
  /\ op' = Call("mount", NoOS, NoLevel)
  /\ ret' = NoLevel
  /\ IF ~env.hasWindow
       THEN /\ calls' = <<>>
            /\ detected' = IF kind = "react" THEN detected ELSE osInfo
            /\ UNCHANGED <<heap, config, enableCSS, enableJavaScript,
                           scaleFactor, aliased, styles, adapter>>
       ELSE /\ detected' = osInfo
            /\ IF osInfo.status = "threw"
                 THEN /\ calls' = <<>>
                      /\ UNCHANGED <<heap, config, enableCSS, enableJavaScript,
                                     scaleFactor, aliased, styles, adapter>>
                 ELSE /\ config' = mergedConfig.entries
                      /\ aliased' = mergedConfig.shared
                      /\ enableCSS' = mergedConfig.enableCSS
                      /\ enableJavaScript' = mergedConfig.enableJavaScript
                      /\ styles' = injectCSS(styles)
                      /\ heap' = [heap EXCEPT ![StateRef] = r.state]
                      /\ scaleFactor' = r.doc.scaleFactor
                      /\ calls' = r.doc.calls
                      /\ adapter' = publish(Adapter(kind, userConfig, osInfo.os),
                                            r.state)
  /\ UNCHANGED <<snap, env, DEFAULT_CONFIG, other, mounted>>

UseOSZoomReact(userConfig) == Mount("react", userConfig)

UseOSZoomVue(userConfig) == Mount("vue", userConfig)

NewOSZoomService(userConfig) == Mount("angular", userConfig)

\* A call that found no manager: `if (zoomManager)` is false and nothing
\* runs.
NothingRuns(name, os, zoomLevel) ==
  /\ op' = Call(name, os, zoomLevel)
  /\ ret' = NoLevel
  /\ calls' = <<>>
  /\ UNCHANGED <<heap, config, enableCSS, enableJavaScript, scaleFactor, snap>>
  /\ UNCHANGED detectorVars
  /\ UNCHANGED adapterVars

\* setZoom and reset of the hook, the composable and the service: when the
\* manager exists, the call on the manager and then the new getState()
\* handed out.  The service always holds a manager.
HookSetZoom(os, zoomLevel) ==
  /\ adapter.exists
  /\ adapter.kind \in ComponentKinds
  /\ IF adapter.zoomManager
       THEN /\ zoomManagerSetZoom(os, zoomLevel)
            /\ adapter' = publish(adapter, heap'[StateRef])
       ELSE NothingRuns("setZoom", os, zoomLevel)

HookReset ==
  /\ adapter.exists
  /\ adapter.kind \in ComponentKinds
  /\ IF adapter.zoomManager
       THEN /\ zoomManagerReset
            /\ adapter' = publish(adapter, heap'[StateRef])
       ELSE NothingRuns("reset", NoOS, NoLevel)

\* getZoom(os) of the hook, the composable and the service: 1 when there
\* is no manager
HookGetZoom(os) ==
  /\ adapter.exists
  /\ adapter.kind \in ComponentKinds
  /\ ret' = IF adapter.zoomManager THEN getZoom(state, config, os)
            ELSE DefaultZoom
  /\ calls' = <<>>
  /\ op' = Call("getZoom", os, NoLevel)
  /\ UNCHANGED <<heap, config, enableCSS, enableJavaScript, scaleFactor, snap>>
  /\ UNCHANGED detectorVars
  /\ UNCHANGED adapterVars

\* The first call of the React hook, in the component's render: the state
\* and osInfo start as literals, both refs as null.
Render(userConfig) ==
  /\ ~adapter.exists
  /\ adapter' = [Adapter("react", userConfig, "unknown")
                   EXCEPT !.zoomManager = FALSE]
  /\ op' = Call("render", NoOS, NoLevel)
  /\ ret' = NoLevel
  /\ calls' = <<>>
  /\ UNCHANGED <<heap, config, enableCSS, enableJavaScript, scaleFactor, snap>>
  /\ UNCHANGED detectorVars
  /\ UNCHANGED <<DEFAULT_CONFIG, aliased, styles, other, mounted>>

\* The call of the Vue composable, in the component's setup: it detects at
\* once and holds no manager yet.  When detect raises, so does the call.
Setup(userConfig) ==
  LET osInfo == detect(env) IN
  /\ ~adapter.exists
  /\ detected' = osInfo
  /\ adapter' = IF osInfo.status = "threw" THEN adapter
                ELSE [Adapter("vue", userConfig, osInfo.os)
                        EXCEPT !.zoomManager = FALSE]
  /\ op' = Call("setup", NoOS, NoLevel)
  /\ ret' = NoLevel
  /\ calls' = <<>>
  /\ UNCHANGED <<heap, config, enableCSS, enableJavaScript, scaleFactor, snap,
                 env>>
  /\ UNCHANGED <<DEFAULT_CONFIG, aliased, styles, other, mounted>>

\* The effect of the React hook, run after the first render: it returns at
\* once where window does not exist; otherwise detect (when it raises,
\* nothing is built), new ZoomManager(mergeConfig(config)), injectCSS,
\* apply(detectedOSInfo.os), setState(getState()).
Effect ==
  LET mergedConfig == mergeConfig(DEFAULT_CONFIG, adapter.userConfig)
      osInfo == detect(env)
      r == apply(initialState, mergedConfig.entries, mergedConfig.enableCSS,
                 mergedConfig.enableJavaScript, DocNow, osInfo.os)
  IN
  /\ adapter.exists
  /\ adapter.kind = "react"
  /\ ~adapter.zoomManager
  /\ op' = Call("effect", NoOS, NoLevel)
  /\ ret' = NoLevel
  /\ IF ~env.hasWindow
       THEN /\ calls' = <<>>
            /\ UNCHANGED <<heap, config, enableCSS, enableJavaScript,
                           scaleFactor, detected, aliased, styles, adapter>>
       ELSE /\ detected' = osInfo
            /\ IF osInfo.status = "threw"
                 THEN /\ calls' = <<>>
                      /\ UNCHANGED <<heap, config, enableCSS, enableJavaScript,
                                     scaleFactor, aliased, styles, adapter>>
                 ELSE /\ config' = mergedConfig.entries
                      /\ aliased' = mergedConfig.shared
                      /\ enableCSS' = mergedConfig.enableCSS
                      /\ enableJavaScript' = mergedConfig.enableJavaScript
                      /\ styles' = injectCSS(styles)
                      /\ heap' = [heap EXCEPT ![StateRef] = r.state]
                      /\ scaleFactor' = r.doc.scaleFactor
                      /\ calls' = r.doc.calls
                      /\ adapter' =
                           publish([adapter EXCEPT !.os = osInfo.os,
                                                   !.zoomManager = TRUE],
                                   r.state)
  /\ UNCHANGED <<snap, env, DEFAULT_CONFIG, other, mounted>>

\* onMounted of the Vue composable, which runs in a live page only:
\* new ZoomManager(mergeConfig(config)), injectCSS, apply(osInfo.value.os)
\* with the OS detected at setup, state.value = getState().
OnMounted ==
  LET mergedConfig == mergeConfig(DEFAULT_CONFIG, adapter.userConfig)
      r == apply(initialState, mergedConfig.entries, mergedConfig.enableCSS,
                 mergedConfig.enableJavaScript, DocNow, adapter.os)
  IN
  /\ adapter.exists
  /\ adapter.kind = "vue"
  /\ ~adapter.zoomManager
  /\ env.hasWindow
  /\ op' = Call("onMounted", NoOS, NoLevel)
  /\ ret' = NoLevel
  /\ config' = mergedConfig.entries
  /\ aliased' = mergedConfig.shared
  /\ enableCSS' = mergedConfig.enableCSS
  /\ enableJavaScript' = mergedConfig.enableJavaScript
  /\ styles' = injectCSS(styles)
  /\ heap' = [heap EXCEPT ![StateRef] = r.state]
  /\ scaleFactor' = r.doc.scaleFactor
  /\ calls' = r.doc.calls
  /\ adapter' = publish([adapter EXCEPT !.zoomManager = TRUE], r.state)
  /\ UNCHANGED <<snap, DEFAULT_CONFIG, other, mounted>>
  /\ UNCHANGED detectorVars

\* getZoom() without argument: OSZoom answers with the current zoom of the
\* state, the hook, the composable and the service with
\* zoomManager.getZoom(os || osInfo.os).
adapterGetZoom(kind, st, cfg, os) ==
  IF kind = "vanilla" THEN st.currentZoom ELSE getZoom(st, cfg, os)

GetZoomNoArg ==
  /\ adapter.exists
  /\ ret' = IF adapter.zoomManager
              THEN adapterGetZoom(adapter.kind, state, config, adapter.os)
              ELSE DefaultZoom
  /\ calls' = <<>>
  /\ op' = Call("getZoom()", NoOS, NoLevel)
  /\ UNCHANGED <<heap, config, enableCSS, enableJavaScript, scaleFactor, snap>>
  /\ UNCHANGED detectorVars
  /\ UNCHANGED adapterVars

\* The teardown of the hook (effect cleanup), of the composable
\* (onUnmounted) and of the service (ngOnDestroy): removeCSS() only.
Unmount(kind, name) ==
  /\ adapter.exists
  /\ adapter.kind = kind
  /\ styles' = removeCSS(styles)
  /\ calls' = <<>>
  /\ ret' = NoLevel
  /\ op' = Call(name, NoOS, NoLevel)
  /\ UNCHANGED <<heap, config, enableCSS, enableJavaScript, scaleFactor, snap>>
  /\ UNCHANGED detectorVars
  /\ UNCHANGED <<DEFAULT_CONFIG, aliased, adapter, other, mounted>>

ReactCleanup == Unmount("react", "cleanup")

VueOnUnmounted == Unmount("vue", "onUnmounted")

NgOnDestroy == Unmount("angular", "ngOnDestroy")

\* injectCSS() and removeCSS() called on some CSSVariables instance; the
\* class keeps no fields, so the instance does not matter.  found is what
\* document.getElementById('oszoom-styles') gave the call.
InjectCSS ==
  /\ env.hasWindow
  /\ styles' = injectCSS(styles)
  /\ calls' = <<>>
  /\ ret' = NoLevel
  /\ op' = [name |-> "injectCSS", os |-> NoOS, level |-> NoLevel,
            found |-> styles > 0]
  /\ UNCHANGED <<heap, config, enableCSS, enableJavaScript, scaleFactor, snap>>
  /\ UNCHANGED detectorVars
  /\ UNCHANGED <<DEFAULT_CONFIG, aliased, adapter, other, mounted>>

RemoveCSS ==
  /\ env.hasWindow
  /\ styles' = removeCSS(styles)
  /\ calls' = <<>>
  /\ ret' = NoLevel
  /\ op' = [name |-> "removeCSS", os |-> NoOS, level |-> NoLevel,
            found |-> styles > 0]
  /\ UNCHANGED <<heap, config, enableCSS, enableJavaScript, scaleFactor, snap>>
  /\ UNCHANGED detectorVars
  /\ UNCHANGED <<DEFAULT_CONFIG, aliased, adapter, other, mounted>>

\* new ZoomManager(ConfigManager.mergeConfig(userConfig)) for a second
\* manager, on which nothing is called afterwards
BuildOther(userConfig) ==
  LET mergedConfig == mergeConfig(DEFAULT_CONFIG, userConfig) IN
  /\ ~other.exists
  /\ other' = [exists |-> TRUE,
               entries |-> [os \in OSTags |->
                              IF os \in mergedConfig.shared THEN Absent
                              ELSE mergedConfig.entries[os]],
               shared |-> mergedConfig.shared]
  /\ calls' = <<>>
  /\ ret' = NoLevel
  /\ op' = Call("newOther", NoOS, NoLevel)
  /\ UNCHANGED <<heap, config, enableCSS, enableJavaScript, scaleFactor, snap>>
  /\ UNCHANGED detectorVars
  /\ UNCHANGED <<DEFAULT_CONFIG, aliased, styles, adapter, mounted>>

\* A component of a live page mounts a hook, composable or service of its
\* own: detect, new ZoomManager(mergeConfig(config)), injectCSS,
\* apply(osInfo.os), which pushes to the one document root, and the state
\* handed out is getState().  The manager stays private to the component.
\* When detect raises, nothing is mounted.
ComponentMount(i, kind, userConfig) ==
  LET mergedConfig == mergeConfig(DEFAULT_CONFIG, userConfig)
      osInfo == detect(env)
      r == apply(initialState, mergedConfig.entries, mergedConfig.enableCSS,
                 mergedConfig.enableJavaScript, DocNow, osInfo.os)
  IN
  /\ env.hasWindow
  /\ mounted[i].kind = "none"
  /\ detected' = osInfo
  /\ op' = Call("componentMount", NoOS, NoLevel)
  /\ ret' = NoLevel
  /\ IF osInfo.status = "threw"
       THEN /\ calls' = <<>>
            /\ UNCHANGED <<styles, scaleFactor, mounted>>
       ELSE /\ styles' = injectCSS(styles)
            /\ scaleFactor' = r.doc.scaleFactor
            /\ calls' = r.doc.calls
            /\ mounted' = [mounted EXCEPT ![i] = Component(kind, r.state)]
  /\ UNCHANGED <<heap, config, enableCSS, enableJavaScript, snap, env,
                 DEFAULT_CONFIG, aliased, adapter, other>>

\* The teardown of a mounted component, run once: the effect cleanup,
\* onUnmounted or ngOnDestroy, each of which calls removeCSS() and nothing
\* else.
ComponentUnmount(i) ==
  /\ mounted[i].kind \in ComponentKinds
  /\ styles' = removeCSS(styles)
  /\ mounted' = [mounted EXCEPT ![i] = NoComponent]
  /\ calls' = <<>>
  /\ ret' = NoLevel
  /\ op' = Call("componentUnmount", NoOS, NoLevel)
  /\ UNCHANGED <<heap, config, enableCSS, enableJavaScript, scaleFactor, snap>>
  /\ UNCHANGED detectorVars
  /\ UNCHANGED <<DEFAULT_CONFIG, aliased, adapter, other>>

\* ------------------------------------------------------------------ initial

\* Configurations a caller builds over two of the OS keys: each key is left
\* out, enabled at 0.8 or disabled at 1 (the values the presets use).  The
\* one with both keys left out is the constructor's default argument {}.
ConfiguredOS == {"windows", "macos"}

KeyChoices == {Absent, Entry(TRUE, 80), Entry(FALSE, DefaultZoom)}

InitConfigs ==
  { [os \in OSTags |-> IF os \in ConfiguredOS THEN f[os] ELSE Absent] :
      f \in [ConfiguredOS -> KeyChoices] }

\* The flag pairs <<enableCSS, enableJavaScript>> a manager is built with:
\* both left out, both true (the merged defaults), and each one false.
FlagPairs ==
  { <<"undefined", "undefined">>, <<"true", "true">>, <<"false", "true">>,
    <<"undefined", "false">>, <<"false", "false">> }

Init ==
  /\ config \in InitConfigs
  /\ \E fp \in FlagPairs : enableCSS = fp[1] /\ enableJavaScript = fp[2]
  /\ heap = [r \in Refs |-> IF r = StateRef THEN initialState ELSE NoObject]
  /\ scaleFactor = NoScale
  /\ calls = <<>>
  /\ ret = NoLevel
  /\ snap = [i \in Slots |-> NullRef]
  /\ op = Call("new", NoOS, NoLevel)
  /\ env = NoEnv
  /\ detected = NotDetected
  /\ DEFAULT_CONFIG = DefaultEntries
  /\ aliased = {}
  /\ styles = 0
  /\ adapter = NoAdapter
  /\ other = NoOther
  /\ mounted = NoComponents

Next ==
  \/ \E os \in OSTags : Apply(os)
  \/ \E os \in OSTags, zoomLevel \in Levels : SetZoom(os, zoomLevel)
  \/ \E os \in OSTags : GetZoom(os)
  \/ Reset

Spec == Init /\ [][Next]_vars

\* The manager under a caller that keeps getState() results and writes to
\* them: one configuration (windows enabled at 0.8, the other keys left
\* out), CSS pushes switched off, apply and setZoom on a configured and on
\* an unconfigured OS.
cfgWindows ==
  [os \in OSTags |-> IF os = "windows" THEN Entry(TRUE, 80) ELSE Absent]

SnapOS == {"windows", "unknown"}

SnapLevels == {MinZoom, 250}

InitSnap ==
  /\ config = cfgWindows
  /\ enableCSS = "false"
  /\ enableJavaScript = "undefined"
  /\ heap = [r \in Refs |-> IF r = StateRef THEN initialState ELSE NoObject]
  /\ scaleFactor = NoScale
  /\ calls = <<>>
  /\ ret = NoLevel
  /\ snap = [i \in Slots |-> NullRef]
  /\ op = Call("new", NoOS, NoLevel)
  /\ env = NoEnv
  /\ detected = NotDetected
  /\ DEFAULT_CONFIG = DefaultEntries
  /\ aliased = {}
  /\ styles = 0
  /\ adapter = NoAdapter
  /\ other = NoOther
  /\ mounted = NoComponents

NextSnap ==
  \/ \E os \in SnapOS : Apply(os)
  \/ \E os \in SnapOS, zoomLevel \in SnapLevels : SetZoom(os, zoomLevel)
  \/ Reset
  \/ \E i \in Slots : GetState(i)
  \/ \E i \in Slots : MutateSnapshot(i)

SpecSnap == InitSnap /\ [][NextSnap]_vars

\* The detector alone: detect() in each environment of DetectEnvs.  No
\* manager is involved; its variables hold what a manager built from {}
\* would start with.
InitDetect ==
  /\ env \in DetectEnvs
  /\ detected = NotDetected
  /\ config = [os \in OSTags |-> Absent]
  /\ enableCSS = "undefined"
  /\ enableJavaScript = "undefined"
  /\ heap = [r \in Refs |-> IF r = StateRef THEN initialState ELSE NoObject]
  /\ scaleFactor = NoScale
  /\ calls = <<>>
  /\ ret = NoLevel
  /\ snap = [i \in Slots |-> NullRef]
  /\ op = Call("new", NoOS, NoLevel)
  /\ DEFAULT_CONFIG = DefaultEntries
  /\ aliased = {}
  /\ styles = 0
  /\ adapter = NoAdapter
  /\ other = NoOther
  /\ mounted = NoComponents

NextDetect == Detect

SpecDetect == InitDetect /\ [][NextDetect]_vars

\* The vanilla adapter in a page: the module was just loaded, no OSZoom
\* exists yet.  The page runs in one of five browsers: a Windows desktop, a
\* Mac with Safari, an iPhone, an Android phone with Chrome, and a phone
\* whose browser has no CSS object.  The configs passed to the constructor
\* give windows and android an entry or leave them out, and leave
\* enableCSS out or set it to false.
AdapterEnvs ==
  {Desktop("Win32", NoMarkers),
   Desktop("MacIntel", Markers("undefined", FALSE, TRUE, FALSE, FALSE, TRUE)),
   IOSPhone("iPhone", Markers("undefined", FALSE, TRUE, FALSE, FALSE, TRUE)),
   AndroidPhone("Android", Markers("runtime", FALSE, FALSE, FALSE, FALSE, TRUE)),
   PlainPhone("Android", NoMarkers)}

AdapterOS == {"windows", "android"}

UserConfigs ==
  {UserConfig([os \in OSTags |-> IF os \in AdapterOS THEN f[os] ELSE Absent],
              "undefined", ecss, "undefined") :
     f \in [AdapterOS -> KeyChoices], ecss \in {"undefined", "false"}}

AdapterLevels == {MinZoom, 250}

InitAdapter ==
  /\ env \in AdapterEnvs
  /\ detected = NotDetected
  /\ DEFAULT_CONFIG = DefaultEntries
  /\ aliased = {}
  /\ styles = 0
  /\ adapter = NoAdapter
  /\ other = NoOther
  /\ mounted = NoComponents
  /\ config = [os \in OSTags |-> Absent]
  /\ enableCSS = "undefined"
  /\ enableJavaScript = "undefined"
  /\ heap = [r \in Refs |-> IF r = StateRef THEN initialState ELSE NoObject]
  /\ scaleFactor = NoScale
  /\ calls = <<>>
  /\ ret = NoLevel
  /\ snap = [i \in Slots |-> NullRef]
  /\ op = Call("load", NoOS, NoLevel)

NextAdapter ==
  \/ \E userConfig \in UserConfigs : NewOSZoom(userConfig)
  \/ \E os \in AdapterOS, zoomLevel \in AdapterLevels : OSZoomSetZoom(os, zoomLevel)
  \/ OSZoomReset
  \/ Destroy

SpecAdapter == InitAdapter /\ [][NextAdapter]_vars

\* The four adapters in a page.  The page runs in one browser per OS: a
\* Windows desktop, a Mac with Safari, a Linux desktop with Firefox, an
\* iPhone, an Android phone with Chrome.  An OSZoom is built from a preset
\* or from {}; a hook, composable or service and a second manager are built
\* from {} or from windowsOnly.
PageEnvs ==
  {Desktop("Win32", NoMarkers),
   Desktop("MacIntel", Markers("undefined", FALSE, TRUE, FALSE, FALSE, TRUE)),
   Desktop("Linux x86_64", Markers("undefined", TRUE, FALSE, FALSE, FALSE, FALSE)),
   IOSPhone("iPhone", Markers("undefined", FALSE, TRUE, FALSE, FALSE, TRUE)),
   AndroidPhone("Android", Markers("runtime", FALSE, FALSE, FALSE, FALSE, TRUE))}

PageConfigs == {presets(name) : name \in PresetNames} \cup {EmptyConfig}

FrameworkConfigs == {EmptyConfig, presets("windowsOnly")}

OtherConfigs == {EmptyConfig, presets("windowsOnly")}

PageOS == {"windows"}

PageLevels == {MinZoom}

InitPage ==
  /\ env \in PageEnvs
  /\ detected = NotDetected
  /\ DEFAULT_CONFIG = DefaultEntries
  /\ aliased = {}
  /\ styles = 0
  /\ adapter = NoAdapter
  /\ other = NoOther
  /\ mounted = NoComponents
  /\ config = [os \in OSTags |-> Absent]
  /\ enableCSS = "undefined"
  /\ enableJavaScript = "undefined"
  /\ heap = [r \in Refs |-> IF r = StateRef THEN initialState ELSE NoObject]
  /\ scaleFactor = NoScale
  /\ calls = <<>>
  /\ ret = NoLevel
  /\ snap = [i \in Slots |-> NullRef]
  /\ op = Call("load", NoOS, NoLevel)

NextPage ==
  \/ \E userConfig \in PageConfigs : NewOSZoom(userConfig)
  \/ \E userConfig \in FrameworkConfigs : UseOSZoomReact(userConfig)
  \/ \E userConfig \in FrameworkConfigs : UseOSZoomVue(userConfig)
  \/ \E userConfig \in FrameworkConfigs : NewOSZoomService(userConfig)
  \/ \E os \in PageOS, zoomLevel \in PageLevels : OSZoomSetZoom(os, zoomLevel)
  \/ OSZoomReset
  \/ \E os \in PageOS, zoomLevel \in PageLevels : HookSetZoom(os, zoomLevel)
  \/ HookReset
  \/ GetZoomNoArg
  \/ Destroy
  \/ ReactCleanup
  \/ VueOnUnmounted
  \/ NgOnDestroy
  \/ InjectCSS
  \/ RemoveCSS
  \/ \E userConfig \in OtherConfigs : BuildOther(userConfig)

SpecPage == InitPage /\ [][NextPage]_vars

\* One manager that owns its configuration and is the only one acting on
\* the document.  It is either a ZoomManager the caller built from a config
\* object of its own, or the manager inside an OSZoom built on a Windows
\* desktop from a preset (a preset lists all five OS keys, so the merged
\* config shares no entry with DEFAULT_CONFIG).  The config objects give
\* windows and macos no entry, an enabled one at 0.8, a disabled one at 1,
\* or an enabled one at 3, a level outside the range which nothing checks.
OwnerChoices ==
  {Absent, Entry(TRUE, 80), Entry(FALSE, DefaultZoom), Entry(TRUE, 300)}

OwnerConfigs ==
  { [os \in OSTags |-> IF os \in ConfiguredOS THEN f[os] ELSE Absent] :
      f \in [ConfiguredOS -> OwnerChoices] }

OwnerFlags == {"undefined", "false"}

OwnerPresets == {presets("windowsOnly"), presets("macosOnly")}

OwnerEnv == Desktop("Win32", NoMarkers)

OwnerOS == {"windows", "macos", "linux"}

OwnerLevels == {30, MinZoom, MaxZoom, 250}

\* after `new ZoomManager(config)`
InitManager ==
  /\ config \in OwnerConfigs
  /\ enableCSS \in OwnerFlags
  /\ enableJavaScript = "undefined"
  /\ heap = [r \in Refs |-> IF r = StateRef THEN initialState ELSE NoObject]
  /\ scaleFactor = NoScale
  /\ calls = <<>>
  /\ ret = NoLevel
  /\ snap = [i \in Slots |-> NullRef]
  /\ op = Call("new", NoOS, NoLevel)
  /\ env = NoEnv
  /\ detected = NotDetected
  /\ DEFAULT_CONFIG = DefaultEntries
  /\ aliased = {}
  /\ styles = 0
  /\ adapter = NoAdapter
  /\ other = NoOther
  /\ mounted = NoComponents

\* after `new OSZoom(userConfig)` in a page that held no stylesheet: the
\* constructor merged the config, injected the stylesheet, detected the OS
\* and applied it.
InitOSZoom ==
  \E userConfig \in OwnerPresets :
    LET mergedConfig == mergeConfig(DefaultEntries, userConfig)
        osInfo == detect(OwnerEnv)
        r == apply(initialState, mergedConfig.entries, mergedConfig.enableCSS,
                   mergedConfig.enableJavaScript,
                   [scaleFactor |-> NoScale, calls |-> <<>>], osInfo.os)
    IN
    /\ env = OwnerEnv
    /\ detected = osInfo
    /\ DEFAULT_CONFIG = DefaultEntries
    /\ config = mergedConfig.entries
    /\ aliased = mergedConfig.shared
    /\ enableCSS = mergedConfig.enableCSS
    /\ enableJavaScript = mergedConfig.enableJavaScript
    /\ heap = [ref \in Refs |-> IF ref = StateRef THEN r.state ELSE NoObject]
    /\ scaleFactor = r.doc.scaleFactor
    /\ calls = r.doc.calls
    /\ styles = injectCSS(0)
    /\ adapter = Adapter("vanilla", userConfig, osInfo.os)
    /\ other = NoOther
    /\ mounted = NoComponents
    /\ ret = NoLevel
    /\ snap = [i \in Slots |-> NullRef]
    /\ op = Call("OSZoom", NoOS, NoLevel)

InitOwner == InitManager \/ InitOSZoom

\* apply is public on ZoomManager only; OSZoom keeps its manager private
\* and hands setZoom, getZoom(os), reset and getState through to it.
NextOwner ==
  \/ \E os \in OwnerOS : ~adapter.exists /\ Apply(os)
  \/ \E os \in OwnerOS, zoomLevel \in OwnerLevels : SetZoom(os, zoomLevel)
  \/ \E os \in OwnerOS : GetZoom(os)
  \/ Reset
  \/ GetState(1)
  \/ Destroy

SpecOwner == InitOwner /\ [][NextOwner]_vars

\* Several components on one page, each mounting and tearing down a hook,
\* composable or service of its own, in any order.  The page runs in one of
\* the browsers of PageEnvs or on a phone whose browser has no CSS object
\* (where detect raises); the components pass {} or a preset.
ComponentEnvs == PageEnvs \cup {PlainPhone("Android", NoMarkers)}

ComponentConfigs == {EmptyConfig, presets("windowsOnly"), presets("allPlatforms")}

InitComponents ==
  /\ env \in ComponentEnvs
  /\ detected = NotDetected
  /\ DEFAULT_CONFIG = DefaultEntries
  /\ aliased = {}
  /\ styles = 0
  /\ adapter = NoAdapter
  /\ other = NoOther
  /\ mounted = NoComponents
  /\ config = [os \in OSTags |-> Absent]
  /\ enableCSS = "undefined"
  /\ enableJavaScript = "undefined"
  /\ heap = [r \in Refs |-> IF r = StateRef THEN initialState ELSE NoObject]
  /\ scaleFactor = NoScale
  /\ calls = <<>>
  /\ ret = NoLevel
  /\ snap = [i \in Slots |-> NullRef]
  /\ op = Call("load", NoOS, NoLevel)

NextComponents ==
  \/ \E i \in Components, kind \in ComponentKinds,
        userConfig \in ComponentConfigs : ComponentMount(i, kind, userConfig)
  \/ \E i \in Components : ComponentUnmount(i)

SpecComponents == InitComponents /\ [][NextComponents]_vars

\* One hook, composable or service through its life: the call that creates
\* it, its mount, calls of setZoom, getZoom and reset before and after the
\* mount, its teardown.  The page is a Windows desktop, an Android phone
\* with Chrome, a phone whose browser has no CSS object (detect raises), or
\* a server rendering the component (no window, no navigator).  The config
\* is {}, a preset, or one that enables windows and android at 0.8 and
\* switches the CSS pushes off.
BindingEnvs ==
  {Desktop("Win32", NoMarkers),
   AndroidPhone("Android", Markers("runtime", FALSE, FALSE, FALSE, FALSE, TRUE)),
   PlainPhone("Android", NoMarkers),
   NoEnv}

BindingOS == {"windows", "android"}

BindingConfigs ==
  {EmptyConfig, presets("windowsOnly"),
   UserConfig([os \in OSTags |->
                 IF os \in BindingOS THEN Entry(TRUE, 80) ELSE Absent],
              "undefined", "false", "undefined")}

BindingLevels == {MinZoom, 250}

InitBinding ==
  /\ env \in BindingEnvs
  /\ detected = NotDetected
  /\ DEFAULT_CONFIG = DefaultEntries
  /\ aliased = {}
  /\ styles = 0
  /\ adapter = NoAdapter
  /\ other = NoOther
  /\ mounted = NoComponents
  /\ config = [os \in OSTags |-> Absent]
  /\ enableCSS = "undefined"
  /\ enableJavaScript = "undefined"
  /\ heap = [r \in Refs |-> IF r = StateRef THEN initialState ELSE NoObject]
  /\ scaleFactor = NoScale
  /\ calls = <<>>
  /\ ret = NoLevel
  /\ snap = [i \in Slots |-> NullRef]
  /\ op = Call("load", NoOS, NoLevel)

\* A teardown runs for an adapter that was mounted.
NextBinding ==
  \/ \E userConfig \in BindingConfigs : Render(userConfig)
  \/ \E userConfig \in BindingConfigs : Setup(userConfig)
  \/ \E userConfig \in BindingConfigs :
        ~adapter.exists /\ NewOSZoomService(userConfig)
  \/ Effect
  \/ OnMounted
  \/ \E os \in BindingOS, zoomLevel \in BindingLevels : HookSetZoom(os, zoomLevel)
  \/ HookReset
  \/ \E os \in BindingOS : HookGetZoom(os)
  \/ GetZoomNoArg
  \/ adapter.zoomManager /\ ReactCleanup
  \/ adapter.zoomManager /\ VueOnUnmounted
  \/ NgOnDestroy

SpecBinding == InitBinding /\ [][NextBinding]_vars

\* ------------------------------------------------------------- properties

\* What the claims call the configured level of an OS: the level of its
\* entry, 1 when the configuration holds no entry for it.
Configured(os) ==
  IF config[os].present THEN config[os].zoomLevel ELSE DefaultZoom

InRangeLevel(level) == MinZoom <= level /\ level <= MaxZoom

\* The latest call was a setZoom with a level of the range on os.
AcceptedSetZoom == op.name = "setZoom" /\ InRangeLevel(op.level)

\* C1 - range rejection: a setZoom with a level below 0.5 or above 2.0
\* leaves the state, the configured level of every OS and the scale factor
\* as they were, and pushes nothing.
C1_RangeRejection ==
  [][ (op'.name = "setZoom" /\ (op'.level < MinZoom \/ op'.level > MaxZoom))
        => /\ state' = state
           /\ config' = config
           /\ \A o \in OSTags :
                getZoom(state', config', o) = getZoom(state, config, o)
           /\ scaleFactor' = scaleFactor
           /\ calls' = <<>> ]_vars

\* A setZoom(os, 2.5) was rejected while a zoom of another level is active.
C1_Witness ==
  /\ op.name = "setZoom" /\ op.level = 250
  /\ state.isActive /\ state.currentZoom = 80
  /\ scaleFactor = 80

\* C2 - accepted update on an enabled OS: after setZoom(os, level) with
\* 0.5 <= level <= 2.0 on an OS whose entry exists and is enabled, the
\* state is {level, os, active}, and an apply(os) made next yields that
\* same state.
C2_AcceptedUpdate ==
  (AcceptedSetZoom /\ config[op.os].present /\ config[op.os].enabled)
    => /\ state = [currentZoom |-> op.level, appliedOS |-> op.os,
                   isActive |-> TRUE]
       /\ apply(state, config, enableCSS, enableJavaScript, DocNow,
                op.os).state = state

\* setZoom at the lower bound 0.5 was accepted on an enabled entry.
C2_Witness ==
  /\ op = Call("setZoom", "windows", MinZoom)
  /\ config["windows"].present /\ config["windows"].enabled
  /\ state = [currentZoom |-> MinZoom, appliedOS |-> "windows",
              isActive |-> TRUE]

\* C3 - set/get round trip, as claimed: after setZoom(os, level) with a
\* level of the range, getZoom(os) is level, whether or not the
\* configuration holds an entry for os.
C3_RoundTrip ==
  AcceptedSetZoom => getZoom(state, config, op.os) = op.level

\* C4 - apply on an OS whose entry is disabled is a no-op: state,
\* configuration and scale factor keep their values and nothing is pushed.
C4_DisabledNoOp ==
  [][ (op'.name = "apply" /\ config[op'.os].present
         /\ ~config[op'.os].enabled)
        => /\ state' = state
           /\ config' = config
           /\ scaleFactor' = scaleFactor
           /\ calls' = <<>> ]_vars

\* apply was called on a disabled OS while the zoom of another OS is active.
C4_Witness ==
  /\ op.name = "apply"
  /\ config[op.os].present /\ ~config[op.os].enabled
  /\ state.isActive /\ state.appliedOS # op.os

\* C5 - apply postcondition: an enabled entry gives {its level, os, active};
\* no entry at all gives the fallback {1, os, active}.
C5_ApplyPost ==
  op.name = "apply" =>
    /\ (config[op.os].present /\ config[op.os].enabled)
         => state = [currentZoom |-> config[op.os].zoomLevel,
                     appliedOS |-> op.os, isActive |-> TRUE]
    /\ ~config[op.os].present
         => state = [currentZoom |-> DefaultZoom, appliedOS |-> op.os,
                     isActive |-> TRUE]

\* apply('linux') ran on a configuration {windows, macos} without linux.
C5_Witness ==
  /\ op = Call("apply", "linux", NoLevel)
  /\ config["windows"].present /\ config["macos"].present
  /\ ~config["linux"].present
  /\ state = [currentZoom |-> DefaultZoom, appliedOS |-> "linux",
              isActive |-> TRUE]

\* C6 - reset yields currentZoom 1 and inactive and always pushes factor 1,
\* whatever enableCSS and enableJavaScript are.
C6_Reset ==
  op.name = "reset" =>
    /\ state.currentZoom = DefaultZoom
    /\ ~state.isActive
    /\ calls = <<DefaultZoom>>
    /\ scaleFactor = DefaultZoom

\* reset ran with both enableCSS and enableJavaScript false.
C6_Witness ==
  /\ op.name = "reset"
  /\ enableCSS = "false" /\ enableJavaScript = "false"
  /\ scaleFactor = DefaultZoom

\* C7 - getState returns a copy: a write to a returned snapshot changes
\* neither this.state nor the other snapshot, a write of the manager to
\* this.state changes no snapshot, and getState hands out the values of
\* this.state in an object of its own.
C7_SnapshotCopy ==
  [][ /\ op'.name = "mutate" =>
           /\ state' = state
           /\ \A i, j \in Slots :
                (i # j /\ snap[i] # NullRef /\ snap[j] # NullRef
                   /\ heap'[snap[i]] # heap[snap[i]])
                  => heap'[snap[j]] = heap[snap[j]]
      /\ op'.name \in {"apply", "setZoom", "reset"} =>
           \A i \in Slots :
             snap[i] # NullRef => heap'[snap[i]] = heap[snap[i]]
      /\ op'.name = "getState" =>
           /\ state' = state
           /\ \E i \in Slots :
                /\ snap'[i] \notin {NullRef, StateRef}
                /\ heap'[snap'[i]] = state ]_vars

\* The caller wrote to one of two snapshots; the two now differ from each
\* other and from this.state.
C7_Witness ==
  /\ op.name = "mutate"
  /\ snap[1] # NullRef /\ snap[2] # NullRef
  /\ heap[snap[1]] # heap[snap[2]]
  /\ heap[snap[1]] # state /\ heap[snap[2]] # state
  /\ state.isActive

\* C8 - setZoom on a disabled OS: with a level of the range the configured
\* level becomes the new one, the state and the scale factor stay.
C8_SetZoomDisabled ==
  [][ (op'.name = "setZoom" /\ InRangeLevel(op'.level)
         /\ config[op'.os].present /\ ~config[op'.os].enabled)
        => /\ config'[op'.os].zoomLevel = op'.level
           /\ getZoom(state', config', op'.os) = op'.level
           /\ state' = state
           /\ scaleFactor' = scaleFactor
           /\ calls' = <<>> ]_vars

\* setZoom changed the level of a disabled OS while another OS is applied.
C8_Witness ==
  /\ AcceptedSetZoom
  /\ config[op.os].present /\ ~config[op.os].enabled
  /\ config[op.os].zoomLevel = MaxZoom
  /\ state.isActive /\ state.currentZoom # MaxZoom

\* The latest call ran apply to its end: an apply, or a setZoom with a
\* level of the range, on an OS that is not disabled.
SuccessfulApply ==
  /\ op.name = "apply" \/ AcceptedSetZoom
  /\ ~config[op.os].present \/ config[op.os].enabled

\* C9 - enableCSS gating: a successful apply makes the state active with
\* the configured level; with enableCSS false it calls setScaleFactor not
\* at all, with enableCSS true or unset exactly once, with that level.
C9_EnableCSS ==
  SuccessfulApply =>
    /\ state.isActive
    /\ state.currentZoom = Configured(op.os)
    /\ IF enableCSS = "false"
         THEN calls = <<>>
         ELSE calls = <<Configured(op.os)>>
                /\ scaleFactor = Configured(op.os)

\* With enableCSS false a setZoom moved the state to its level and the
\* document root still has no scale factor.
C9_Witness ==
  /\ enableCSS = "false"
  /\ AcceptedSetZoom /\ config[op.os].present
  /\ state.isActive /\ state.currentZoom = op.level
  /\ op.level # DefaultZoom
  /\ calls = <<>> /\ scaleFactor = NoScale

\* C10 - getZoom is a pure lookup: it returns the configured level (1 for
\* an OS without entry), the same for any ZoomState, and changes nothing.
C10_GetZoomPure ==
  [][ op'.name = "getZoom" =>
        /\ ret' = (IF config[op'.os].present
                     THEN config[op'.os].zoomLevel ELSE DefaultZoom)
        /\ ret' = getZoom(resetState(state), config, op'.os)
        /\ ret' = getZoom(initialState, config, op'.os)
        /\ state' = state
        /\ config' = config
        /\ scaleFactor' = scaleFactor
        /\ calls' = <<>> ]_vars

\* getZoom was asked, after a reset, for the OS last applied, and returned
\* its configured level, not the current zoom.
C10_Witness ==
  /\ op.name = "getZoom"
  /\ op.os = state.appliedOS /\ ~state.isActive
  /\ config[op.os].present
  /\ ret # state.currentZoom

\* C11: right after construction, with any configuration, the state is
\* {currentZoom: 1, appliedOS: 'unknown', isActive: false} and no scale
\* factor has been pushed to the document.
C11_InitialState ==
  op.name = "new" =>
    /\ state = [currentZoom |-> 100, appliedOS |-> "unknown", isActive |-> FALSE]
    /\ scaleFactor = NoScale
    /\ calls = <<>>

\* A manager just built from a configuration that enables windows
C11_Witness ==
  /\ op.name = "new"
  /\ config["windows"].present
  /\ config["windows"].enabled
  /\ config["windows"].zoomLevel # 100

\* A live snapshot: window and navigator both exist
Live == env.hasWindow /\ env.hasNavigator

\* detect() was called and came to an end, by returning or by raising
DetectCalled == op.name = "detect" /\ detected.status # "none"

\* C12: where window or navigator does not exist, detect() returns
\* {os: 'unknown', isMobile: false, browser: undefined}; the check comes
\* before any probe is read, so nothing is raised.
C12_SSRSafe ==
  (DetectCalled /\ ~Live) =>
    /\ detected.status = "returned"
    /\ detected.os = "unknown"
    /\ detected.isMobile = FALSE
    /\ detected.browser = "undefined"

\* detect() has returned where window exists and navigator does not
C12_Witness ==
  /\ DetectCalled
  /\ env.hasWindow
  /\ ~env.hasNavigator
  /\ detected.status = "returned"

\* C13: detect() never raises an error in a live snapshot, whatever the
\* snapshot lacks (no CSS object, a chrome global that is null, an
\* undefined navigator.platform).
C13_NeverThrows ==
  (DetectCalled /\ Live) => detected.status = "returned"

\* The mobile rule as the claim states it, on 1.5 scaled to 150
MobileSignals ==
  /\ env.ontouchstart \/ env.maxTouchPoints > 0
  /\ \/ env.screenWidth < 1024 \/ env.screenHeight < 768
     \/ env.standalone
     \/ (env.devicePixelRatio > 150
           /\ (env.innerWidth < 768 \/ env.innerHeight < 768))

\* C14: for every live snapshot the result's isMobile is true exactly when
\* there is touch and (a screen narrower than 1024 or lower than 768, or
\* the standalone flag, or a pixel ratio above 1.5 with a viewport side
\* under 768).
C14_MobileIff ==
  (DetectCalled /\ Live) =>
    /\ detected.status = "returned"
    /\ detected.isMobile <=> MobileSignals

\* C15: every live snapshot whose platform contains iphone, ipad or ipod
\* in any letter case is classified 'ios', whatever its other signals.
C15_IOSPlatform ==
  (DetectCalled /\ Live /\ env.platform \in {"iPhone", "iPad", "iPod"}) =>
    /\ detected.status = "returned"
    /\ detected.os = "ios"

\* C16: a mobile snapshot that matches neither the iOS nor the Android
\* heuristic is classified 'android', so every mobile snapshot is
\* classified 'ios' or 'android'.
C16_MobileFallback ==
  (DetectCalled /\ Live /\ MobileSignals) =>
    /\ detected.status = "returned"
    /\ detected.os \in {"ios", "android"}

\* The platform names no desktop OS: none of win, mac, darwin, linux
PlatformNamesNoDesktop ==
  env.platform \in {"undefined", "iPhone", "iPad", "iPod", "Android", "FreeBSD"}

\* Nothing in the snapshot makes the Windows, macOS or Linux heuristic
\* match: no ActiveX, no webkit, no safari, no Firefox or Chrome marker
NoDesktopSignal ==
  /\ ~env.ActiveXObject
  /\ ~env.webkit
  /\ ~env.safari
  /\ ~env.InstallTrigger
  /\ env.chrome # "runtime"

\* C17: a snapshot that is not mobile, matches none of the Windows, macOS
\* and Linux heuristics and whose platform contains none of win, mac,
\* darwin, linux is classified 'windows'.
C17_DesktopFallback ==
  (DetectCalled /\ Live /\ ~MobileSignals /\ NoDesktopSignal
     /\ PlatformNamesNoDesktop) =>
    /\ detected.status = "returned"
    /\ detected.os = "windows"

\* The browser the claimed order gives for the snapshot's markers
BrowserByOrder ==
  IF env.chrome = "runtime" THEN "Chrome"
  ELSE IF env.InstallTrigger THEN "Firefox"
  ELSE IF env.safari THEN "Safari"
  ELSE IF env.StyleMedia THEN "Edge"
  ELSE "undefined"

\* C18: in every live snapshot the browser field is the first match of
\* Chrome (a chrome global with runtime), Firefox (InstallTrigger), Safari
\* (the safari global), Edge (StyleMedia), else unset; it depends on
\* those markers only, not on the OS classification.
C18_BrowserOrder ==
  (DetectCalled /\ Live) =>
    /\ detected.status = "returned"
    /\ detected.browser = BrowserByOrder

\* C19: whatever was done before on any manager or adapter, mergeConfig
\* gives each of the five OS keys the user's entry when there is one and
\* {enabled: false, zoomLevel: 1} otherwise, and gives debug false,
\* enableCSS true and enableJavaScript true unless the user sets them.
C19_MergeDefaults ==
  \A userConfig \in UserConfigs :
    LET merged == mergeConfig(DEFAULT_CONFIG, userConfig) IN
    /\ \A os \in OSTags \ {"unknown"} :
         merged.entries[os] =
           IF userConfig.entries[os].present THEN userConfig.entries[os]
           ELSE [present |-> TRUE, enabled |-> FALSE, zoomLevel |-> 100]
    /\ userConfig.debug = "undefined" => merged.debug = "false"
    /\ userConfig.enableCSS = "undefined" => merged.enableCSS = "true"
    /\ userConfig.enableJavaScript = "undefined" => merged.enableJavaScript = "true"

\* C20: after new OSZoom(userConfig) in a live context the stylesheet is
\* in the document and detection has returned an OS d; if the merged
\* config enables d, the state is {level of d, d, true} and the scale
\* factor is that level; otherwise the state is {1, 'unknown', false} and
\* no scale factor was pushed.
C20_Initialization ==
  (op.name = "OSZoom" /\ Live) =>
    /\ styles = 1
    /\ detected.status = "returned"
    /\ adapter.exists
    /\ LET d == detected.os
           entry == adapter.userConfig.entries[detected.os]
       IN IF entry.present /\ entry.enabled
            THEN /\ state = [currentZoom |-> entry.zoomLevel, appliedOS |-> d,
                             isActive |-> TRUE]
                 /\ scaleFactor = entry.zoomLevel
                 /\ calls = <<entry.zoomLevel>>
            ELSE /\ state = [currentZoom |-> 100, appliedOS |-> "unknown",
                             isActive |-> FALSE]
                 /\ calls = <<>>

\* C25: every snapshot that is not mobile, has no ActiveX marker and whose
\* platform contains "mac" or "darwin" is classified 'macos'.
C25_MacPlatform ==
  (DetectCalled /\ Live /\ ~MobileSignals /\ ~env.ActiveXObject
     /\ env.platform \in {"MacIntel", "Darwin"}) =>
    /\ detected.status = "returned"
    /\ detected.os = "macos"

\* The desktop heuristics as the claim states them.  Of the platforms of
\* the model Win32 and Darwin contain "win", MacIntel and Darwin contain
\* "mac" or "darwin", Linux x86_64 contains "linux" without "android";
\* none contains wow64, win64 or x11.
WindowsSignals ==
  \/ env.platform \in {"Win32", "Darwin"}
  \/ (env.ActiveXObject /\ env.screenWidth >= 1024 /\ env.screenHeight >= 768)

MacSignals ==
  \/ env.platform \in {"MacIntel", "Darwin"}
  \/ (env.safari /\ env.webkit)
  \/ (env.webkit /\ env.devicePixelRatio >= 200)

LinuxSignals ==
  \/ env.platform = "Linux x86_64"
  \/ env.InstallTrigger
  \/ env.chrome = "runtime"

\* C26: in every live snapshot that is not mobile the OS is the first of
\* windows, macos, linux whose heuristic matches: windows when the Windows
\* one matches, else macos when the macOS one matches, else linux when
\* the Linux one matches.
C26_DesktopOrder ==
  (DetectCalled /\ Live /\ ~MobileSignals) =>
    /\ detected.status = "returned"
    /\ WindowsSignals => detected.os = "windows"
    /\ (~WindowsSignals /\ MacSignals) => detected.os = "macos"
    /\ (~WindowsSignals /\ ~MacSignals /\ LinuxSignals) => detected.os = "linux"

\* The OS predicates that are true of the snapshot
TruePredicates ==
  {os \in {"ios", "android", "windows", "macos", "linux"} :
     \/ os = "ios" /\ isIOSDevice(env)
     \/ os = "android" /\ isAndroidDevice(env)
     \/ os = "windows" /\ isWindowsDevice(env)
     \/ os = "macos" /\ isMacOSDevice(env)
     \/ os = "linux" /\ isLinuxDevice(env)}

\* C27: in every live snapshot (on which no predicate raises) at most one
\* of isIOSDevice, isAndroidDevice, isWindowsDevice, isMacOSDevice,
\* isLinuxDevice is true; the mobile ones are false on a desktop snapshot
\* and the desktop ones on a mobile snapshot.
C27_NoDoubleClassification ==
  (DetectCalled /\ Live /\ env.css # "missing" /\ env.chrome # "null") =>
    /\ Cardinality(TruePredicates) <= 1
    /\ MobileSignals => TruePredicates \subseteq {"ios", "android"}
    /\ ~MobileSignals => TruePredicates \subseteq {"windows", "macos", "linux"}

\* The iOS rule as the claim states it
IOSSignals ==
  \/ env.platform \in {"iPhone", "iPad", "iPod"}
  \/ /\ env.standalone
     /\ env.ontouchstart \/ env.maxTouchPoints > 0
     /\ env.css \in {"touchCallout", "appearance", "both"}

\* C28: a mobile snapshot is classified 'ios' exactly when its platform
\* contains iphone, ipad or ipod, or it has the standalone flag with touch
\* and one of the two style probes succeeding.
C28_IOSHeuristic ==
  (DetectCalled /\ Live /\ MobileSignals) =>
    /\ detected.status = "returned"
    /\ detected.os = "ios" <=> IOSSignals

\* C30: in every live snapshot the OS is one of windows, macos, linux,
\* android, ios, never 'unknown', and isMobile is true exactly when the OS
\* is android or ios.
C30_Totality ==
  (DetectCalled /\ Live) =>
    /\ detected.status = "returned"
    /\ detected.os \in {"windows", "macos", "linux", "android", "ios"}
    /\ detected.isMobile <=> detected.os \in {"android", "ios"}

\* The OS each preset names, as the claim lists them
NamedBy(name) ==
  CASE name = "windowsOnly"  -> {"windows"}
    [] name = "macosOnly"    -> {"macos"}
    [] name = "desktopOnly"  -> {"windows", "macos", "linux"}
    [] name = "mobileOnly"   -> {"android", "ios"}
    [] name = "allPlatforms" -> {"windows", "macos", "linux", "android", "ios"}

\* An adapter has just been initialized and detection gave an OS
Initialized ==
  /\ op.name \in {"OSZoom", "mount"}
  /\ adapter.exists
  /\ detected.status = "returned"

\* C21: after an adapter is initialized from a preset, with any of the
\* five OS detected, isActive is true exactly when the preset names the
\* detected OS, and then currentZoom is 0.8 on that OS; this holds for
\* every preset call, whatever setZoom did to instances built from earlier
\* preset calls.
C21_Presets ==
  Initialized =>
    \A name \in {"windowsOnly", "macosOnly", "desktopOnly", "allPlatforms",
                 "mobileOnly"} :
      adapter.userConfig = presets(name) =>
        /\ state.isActive <=> detected.os \in NamedBy(name)
        /\ state.isActive =>
             /\ state.currentZoom = 80
             /\ state.appliedOS = detected.os
             /\ scaleFactor = 80

\* An OSZoom built from mobileOnly on an iPhone is active at 0.8
C21_Witness ==
  /\ Initialized
  /\ adapter.userConfig = presets("mobileOnly")
  /\ detected.os = "ios"
  /\ state.isActive
  /\ state.currentZoom = 80

\* C22: the teardown of every adapter (destroy, the effect cleanup,
\* onUnmounted, ngOnDestroy) resets the zoom and pushes scale factor 1,
\* then removes the stylesheet: afterwards the state is back at zoom 1 and
\* inactive, the scale factor is 1 and no marker element remains.
C22_Teardown ==
  op.name \in {"destroy", "cleanup", "onUnmounted", "ngOnDestroy"} =>
    /\ state.currentZoom = 100
    /\ ~state.isActive
    /\ scaleFactor = 100
    /\ styles = 0

\* C23: whatever injectCSS and removeCSS calls are made, at most one
\* marker element exists; injectCSS changes nothing when the marker is
\* present and removeCSS changes nothing when it is absent.
C23_StyleIdempotent ==
  [][/\ styles' <= 1
     /\ (op'.name = "injectCSS" /\ styles = 1) =>
          /\ styles' = 1
          /\ UNCHANGED <<heap, config, scaleFactor, DEFAULT_CONFIG>>
     /\ (op'.name = "removeCSS" /\ styles = 0) =>
          /\ styles' = 0
          /\ UNCHANGED <<heap, config, scaleFactor, DEFAULT_CONFIG>>]_vars

\* injectCSS was called while the marker was present
C23_Witness ==
  /\ op.name = "injectCSS"
  /\ op.found
  /\ styles = 1

\* C24: for the same config, detected OS and call sequence the four
\* adapters expose the same state and return the same value from every
\* getZoom call: what getZoom() returned is what each of the four returns
\* in this state.
C24_AdapterEquivalence ==
  (op.name = "getZoom()" /\ adapter.exists) =>
    \A kind \in {"vanilla", "react", "vue", "angular"} :
      adapterGetZoom(kind, state, config, adapter.os) = ret

\* C29: no call on the adapter's manager changes what getZoom(os) of a
\* second manager, built from its own mergeConfig call, returns.
C29_Isolation ==
  [][(other.exists /\ other' = other) =>
       \A os \in OSTags :
         getZoom(initialState, otherConfig(DEFAULT_CONFIG', other), os)
           = getZoom(initialState, otherConfig(DEFAULT_CONFIG, other), os)]_vars

\* C31 - applied level matches configured level: for one manager that owns
\* its config, in every state reached by apply, setZoom, getZoom, getState
\* and reset calls, an active state holds as current zoom the configured
\* level of the applied OS, and an inactive state (the one a reset leaves,
\* and the one of the constructor) holds a current zoom of 1.
C31_AppliedMatchesConfigured ==
  /\ state.isActive =>
       state.currentZoom =
         (IF config[state.appliedOS].present
            THEN config[state.appliedOS].zoomLevel ELSE 100)
  /\ ~state.isActive => state.currentZoom = 100

\* windows is applied at 0.5 and a setZoom on the disabled macos has just
\* written 2.0 into its entry.
C31_Witness ==
  /\ op.name = "setZoom" /\ op.os = "macos" /\ op.level = 200
  /\ config["macos"].present /\ ~config["macos"].enabled
  /\ config["macos"].zoomLevel = 200
  /\ state.isActive /\ state.appliedOS = "windows" /\ state.currentZoom = 50

\* Every level the configuration holds and the current zoom lie in
\* [0.5, 2.0].
LevelsInRange(cfg, st) ==
  /\ \A os \in OSTags :
       cfg[os].present => (50 <= cfg[os].zoomLevel /\ cfg[os].zoomLevel <= 200)
  /\ 50 <= st.currentZoom /\ st.currentZoom <= 200

C33_EnabledFrozen ==
  /\ [][\A os \in OSTags :
          /\ config'[os].present = config[os].present
          /\ config'[os].enabled = config[os].enabled]_vars
  /\ [](state.isActive =>
          ~(config[state.appliedOS].present /\ ~config[state.appliedOS].enabled))

\* macos is disabled, a setZoom has written 0.5 into its entry and an
\* apply(macos) has just returned; windows is still the applied OS.
C33_Witness ==
  /\ op.name = "apply" /\ op.os = "macos"
  /\ config["macos"].present /\ ~config["macos"].enabled
  /\ config["macos"].zoomLevel = 50
  /\ state.isActive /\ state.appliedOS = "windows"

\* C35 - state and style agree: with one manager acting on the document
\* and enableCSS not false, either no scale factor was ever pushed and the
\* current zoom is 1, or the scale factor on the document root (the last
\* one pushed) is the current zoom.
C35_StateStyleAgree ==
  enableCSS # "false" =>
    \/ scaleFactor = 0 /\ state.currentZoom = 100
    \/ scaleFactor = state.currentZoom

\* enableCSS is left out, windows was applied at 2.0 and a reset has just
\* pushed 1.
C35_Witness ==
  /\ enableCSS = "undefined"
  /\ op.name = "reset"
  /\ config["windows"].present /\ config["windows"].zoomLevel = 200
  /\ state.appliedOS = "windows" /\ state.currentZoom = 100
  /\ scaleFactor = 100

\* C37 - what reset leaves alone: a reset (also the one inside destroy)
\* leaves appliedOS, every config entry and the flags as they were; and
\* when the call before the reset was an apply(os) that applied, apply(os)
\* on what the reset left gives back the state that apply had produced.
C37_ResetFrame ==
  [][op'.name \in {"reset", "destroy"} =>
       /\ state'.appliedOS = state.appliedOS
       /\ config' = config
       /\ enableCSS' = enableCSS
       /\ enableJavaScript' = enableJavaScript
       /\ (op.name = "apply" /\ state.isActive /\ state.appliedOS = op.os) =>
            apply(state', config', enableCSS', enableJavaScript',
                  [scaleFactor |-> scaleFactor', calls |-> <<>>],
                  op.os).state = state]_vars

\* macos had been applied at 0.5 and a reset has just run: the state is
\* inactive at 1 and still names macos, whose entry still holds 0.5.
C37_Witness ==
  /\ op.name = "reset"
  /\ state.appliedOS = "macos" /\ ~state.isActive /\ state.currentZoom = 100
  /\ config["macos"].present /\ config["macos"].enabled
  /\ config["macos"].zoomLevel = 50
  /\ config["windows"].present /\ ~config["windows"].enabled

C36_StylesheetLifetime ==
  (\E i \in Components : mounted[i].kind # "none") => styles >= 1

\* C38 - published adapter state tracks the core: for a hook, composable
\* or service, while it holds no manager the state it hands out is
\* {1, 'unknown', false}, a setZoom or reset changes nothing and pushes
\* nothing, and getZoom returns 1; once it holds a manager (after the
\* mount, and after every setZoom or reset, accepted or rejected) the
\* state it hands out equals the state of the manager.
C38_PublishedTracksCore ==
  /\ []((adapter.exists /\ adapter.kind \in {"react", "vue", "angular"}) =>
          IF adapter.zoomManager
            THEN adapter.state = state
            ELSE adapter.state = [currentZoom |-> 100, appliedOS |-> "unknown",
                                  isActive |-> FALSE])
  /\ [][(adapter.exists /\ adapter.kind \in {"react", "vue", "angular"}
           /\ ~adapter.zoomManager) =>
          /\ op'.name \in {"setZoom", "reset"} =>
               /\ adapter' = adapter
               /\ heap' = heap /\ config' = config
               /\ scaleFactor' = scaleFactor /\ styles' = styles
               /\ calls' = <<>>
          /\ op'.name \in {"getZoom", "getZoom()"} => ret' = 100]_vars

\* A mounted hook whose manager accepted a setZoom of 0.5 on windows and
\* has just rejected one of 2.5: the state handed out is the manager's.
C38_Witness ==
  /\ adapter.exists /\ adapter.kind = "react" /\ adapter.zoomManager
  /\ op.name = "setZoom" /\ op.level = 250
  /\ adapter.state.isActive /\ adapter.state.appliedOS = "windows"
  /\ adapter.state.currentZoom = 50
  /\ state.currentZoom = 50
====
